---- MODULE Spec2Model ----
(***************************************************************************)
(* Certificate of Civic Negligence (src/app/page.tsx).                     *)
(*                                                                         *)
(* Two units are modelled:                                                 *)
(*   - the Region Matcher, getCMImageUrl and getCMImageUrl2, pure          *)
(*     functions over strings and the CM_DATA catalog;                     *)
(*   - the Capture Orchestrator, the PotholeCertificateApp component: its  *)
(*     React state, its refs, and the asynchronous requests and timers it  *)
(*     has outstanding.                                                    *)
(*                                                                         *)
(* A JavaScript string the matcher inspects is a sequence of one-character *)
(* strings; a string the program only stores or compares (a message, a     *)
(* URL, an address) is a TLA+ string.  A nullable value is an option:      *)
(* Null, or Some(v).                                                       *)
(***************************************************************************)
EXTENDS Naturals, Sequences, FiniteSets

(***************************************************************************)
(* Nullable values (null / undefined).                                     *)
(***************************************************************************)
Null == <<>>

Some(v) == <<v>>

Val(o) == o[1]

(***************************************************************************)
(* Characters.                                                             *)
(***************************************************************************)
UpperCase ==
  <<"A","B","C","D","E","F","G","H","I","J","K","L","M",
    "N","O","P","Q","R","S","T","U","V","W","X","Y","Z">>

LowerCase ==
  <<"a","b","c","d","e","f","g","h","i","j","k","l","m",
    "n","o","p","q","r","s","t","u","v","w","x","y","z">>

\* The characters String.prototype.trim strips and \s matches (the model's
\* alphabet holds the space and the tab).
WhiteSpace == {" ", "\t"}

LowerLetters == {LowerCase[i] : i \in 1..Len(LowerCase)}

toLowerCaseChar(c) ==
  IF \E i \in 1..Len(UpperCase) : UpperCase[i] = c
  THEN LowerCase[CHOOSE i \in 1..Len(UpperCase) : UpperCase[i] = c]
  ELSE c

\* String.prototype.toLowerCase
toLowerCase(s) == [i \in 1..Len(s) |-> toLowerCaseChar(s[i])]

\* s.replace(/&/g, "and")
RECURSIVE replaceAmp(_)
replaceAmp(s) ==
  IF s = <<>> THEN <<>>
  ELSE (IF Head(s) = "&" THEN <<"a","n","d">> ELSE <<Head(s)>>)
       \o replaceAmp(Tail(s))

RECURSIVE trimStart(_)
trimStart(s) ==
  IF s # <<>> /\ Head(s) \in WhiteSpace THEN trimStart(Tail(s)) ELSE s

RECURSIVE trimEnd(_)
trimEnd(s) ==
  IF s # <<>> /\ s[Len(s)] \in WhiteSpace
  THEN trimEnd(SubSeq(s, 1, Len(s) - 1))
  ELSE s

\* String.prototype.trim
trim(s) == trimEnd(trimStart(s))

\* String.prototype.includes: needle occurs in hay (the empty needle always)
includes(hay, needle) ==
  \E i \in 0..Len(hay) :
    /\ i + Len(needle) <= Len(hay)
    /\ SubSeq(hay, i + 1, i + Len(needle)) = needle

\* s.replace(/[^a-z\s]/g, "")
onlyLettersAndSpace(s) == SelectSeq(s, LAMBDA c : c \in LowerLetters \cup WhiteSpace)

\* s.split(/\s+/).filter(word => word.length > 0), as the set of the words
RECURSIVE splitWords(_, _)
splitWords(s, word) ==
  IF s = <<>> THEN (IF word = <<>> THEN {} ELSE {word})
  ELSE IF Head(s) \in WhiteSpace
       THEN (IF word = <<>> THEN {} ELSE {word}) \cup splitWords(Tail(s), <<>>)
       ELSE splitWords(Tail(s), Append(word, Head(s)))

(***************************************************************************)
(* The decorative-imagery catalog, in the order of its keys.               *)
(***************************************************************************)
CM_DATA ==
  << [key |-> <<"A","n","d","h","r","a"," ","P","r","a","d","e","s","h">>,
      img |-> "https://upload.wikimedia.org/wikipedia/commons/a/a8/The_portrait_of_CM_Shri_Nara_Chandrababu_Naidu.jpg"],
     [key |-> <<"A","r","u","n","a","c","h","a","l"," ","P","r","a","d","e","s","h">>,
      img |-> "https://upload.wikimedia.org/wikipedia/commons/2/2b/Pema_Khandu_in_2018.jpg"],
     [key |-> <<"A","s","s","a","m">>,
      img |-> "https://upload.wikimedia.org/wikipedia/commons/thumb/5/54/Himanta_Biswa_Sarma_in_2025.jpg/500px-Himanta_Biswa_Sarma_in_2025.jpg"],
     [key |-> <<"B","i","h","a","r">>,
      img |-> "https://upload.wikimedia.org/wikipedia/commons/thumb/f/fe/Nitish_Kumar_with_JDU_functionaries_%28cropped%29.jpg/500px-Nitish_Kumar_with_JDU_functionaries_%28cropped%29.jpg"],
     [key |-> <<"C","h","h","a","t","t","i","s","g","a","r","h">>,
      img |-> "https://upload.wikimedia.org/wikipedia/commons/a/a4/Vishnu_Deo_Sai%2C_Chief_Minister_of_Chhattisgarh.jpg"],
     [key |-> <<"D","e","l","h","i">>,
      img |-> "https://upload.wikimedia.org/wikipedia/commons/7/72/Chief_Minister_of_Delhi%2C_Smt._Rekha_Gupta.jpg"],
     [key |-> <<"G","o","a">>,
      img |-> "https://upload.wikimedia.org/wikipedia/commons/thumb/9/9e/Pramod_Sawant_at_the_inauguration_of_the_Chhatrapati_Shivaji_Maharaj_Chair_in_Goa_University_%28cropped%29.jpg/500px-Pramod_Sawant_at_the_inauguration_of_the_Chhatrapati_Shivaji_Maharaj_Chair_in_Goa_University_%28cropped%29.jpg"],
     [key |-> <<"G","u","j","a","r","a","t">>,
      img |-> "https://upload.wikimedia.org/wikipedia/commons/0/0d/Bhupendra_PAtel_Sanskrit.jpg"],
     [key |-> <<"H","a","r","y","a","n","a">>,
      img |-> "https://upload.wikimedia.org/wikipedia/commons/thumb/f/f5/Nayab_Singh_Saini.jpg/500px-Nayab_Singh_Saini.jpg"],
     [key |-> <<"H","i","m","a","c","h","a","l"," ","P","r","a","d","e","s","h">>,
      img |-> "https://upload.wikimedia.org/wikipedia/commons/thumb/b/b0/Sukhvinder_Singh_Sukhu.jpg/500px-Sukhvinder_Singh_Sukhu.jpg"],
     [key |-> <<"J","a","m","m","u"," ","&"," ","K","a","s","h","m","i","r">>,
      img |-> "https://upload.wikimedia.org/wikipedia/commons/6/68/Omar_Abdullah%2C_Chief_Minister_of_Jammu_%26_Kashmir.jpg"],
     [key |-> <<"J","h","a","r","k","h","a","n","d">>,
      img |-> "https://upload.wikimedia.org/wikipedia/commons/thumb/6/69/Hemant_Soren_2024.jpg/500px-Hemant_Soren_2024.jpg"],
     [key |-> <<"K","a","r","n","a","t","a","k","a">>,
      img |-> "https://upload.wikimedia.org/wikipedia/commons/thumb/a/ac/Siddaramaiah_at_the_function_to_commemorate_the_serving_of_2_billion_meals_of_the_Akshaya_Patra_Foundation_in_Karnataka_%28cropped%29.jpg/419px-Siddaramaiah_at_the_function_to_commemorate_the_serving_of_2_billion_meals_of_the_Akshaya_Patra_Foundation_in_Karnataka_%28cropped%29.jpg"],
     [key |-> <<"K","e","r","a","l","a">>,
      img |-> "https://upload.wikimedia.org/wikipedia/commons/thumb/4/43/Chief_Minister_Pinarayi_Vijayan_2023.tif/lossy-page1-500px-Chief_Minister_Pinarayi_Vijayan_2023.tif.jpg"],
     [key |-> <<"M","a","d","h","y","a"," ","P","r","a","d","e","s","h">>,
      img |-> "https://upload.wikimedia.org/wikipedia/commons/5/58/Mohan_Yadav%2C_Chief_Minister_of_Madhya_Pradesh.jpg"],
     [key |-> <<"M","a","h","a","r","a","s","h","t","r","a">>,
      img |-> "https://upload.wikimedia.org/wikipedia/commons/thumb/b/b3/Devendra_Fadnavis_%40Vidhan_Sabha_04-03-2021.jpg/500px-Devendra_Fadnavis_%40Vidhan_Sabha_04-03-2021.jpg"],
     [key |-> <<"M","a","n","i","p","u","r">>,
      img |-> ""],
     [key |-> <<"M","e","g","h","a","l","a","y","a">>,
      img |-> "https://upload.wikimedia.org/wikipedia/commons/thumb/8/88/The_Chief_Minister_of_Meghalaya%2C_Shri_Conrad_Sangma.JPG/500px-The_Chief_Minister_of_Meghalaya%2C_Shri_Conrad_Sangma.JPG"],
     [key |-> <<"M","i","z","o","r","a","m">>,
      img |-> "https://upload.wikimedia.org/wikipedia/commons/thumb/2/28/Lalduhawma1.jpg/500px-Lalduhawma1.jpg"],
     [key |-> <<"N","a","g","a","l","a","n","d">>,
      img |-> "https://upload.wikimedia.org/wikipedia/commons/thumb/f/f5/NeiphiuRio.jpg/500px-NeiphiuRio.jpg"],
     [key |-> <<"O","d","i","s","h","a">>,
      img |-> "https://upload.wikimedia.org/wikipedia/commons/thumb/0/0c/%E0%AC%B6%E0%AD%8D%E0%AC%B0%E0%AD%80_%E0%AC%AE%E0%AD%8B%E0%AC%B9%E0%AC%A8_%E0%AC%9A%E0%AC%B0%E0%AC%A3_%E0%AC%AE%E0%AC%BE%E0%AC%9D%E0%AD%80.jpg/500px-%E0%AC%B6%E0%AD%8D%E0%AC%B0%E0%AD%80_%E0%AC%AE%E0%AD%8B%E0%AC%B9%E0%AC%A8_%E0%AC%9A%E0%AC%B0%E0%AC%A3_%E0%AC%AE%E0%AC%BE%E0%AC%9D%E0%AD%80.jpg"],
     [key |-> <<"P","u","d","u","c","h","e","r","r","y">>,
      img |-> "https://upload.wikimedia.org/wikipedia/commons/0/08/N._Rangaswami.jpg"],
     [key |-> <<"P","u","n","j","a","b">>,
      img |-> "https://upload.wikimedia.org/wikipedia/commons/f/f8/Bhagwant_Mann.png"],
     [key |-> <<"R","a","j","a","s","t","h","a","n">>,
      img |-> "https://upload.wikimedia.org/wikipedia/commons/a/aa/Bhajan_Lal_Sharma.jpg"],
     [key |-> <<"S","i","k","k","i","m">>,
      img |-> "https://upload.wikimedia.org/wikipedia/commons/7/72/Prem_Singh_Tamang%2C_Chief_Minister_of_Sikkim.jpg"],
     [key |-> <<"T","a","m","i","l"," ","N","a","d","u">>,
      img |-> "https://upload.wikimedia.org/wikipedia/commons/thumb/4/4a/The_Chief_Minister_of_Tamil_Nadu%2C_Thiru_MK_Stalin.jpeg/500px-The_Chief_Minister_of_Tamil_Nadu%2C_Thiru_MK_Stalin.jpeg"],
     [key |-> <<"T","e","l","a","n","g","a","n","a">>,
      img |-> "https://upload.wikimedia.org/wikipedia/commons/thumb/c/c0/Portrait_of_Telangana_CM_Revanth_Reddy.png/500px-Portrait_of_Telangana_CM_Revanth_Reddy.png"],
     [key |-> <<"T","r","i","p","u","r","a">>,
      img |-> "https://upload.wikimedia.org/wikipedia/commons/thumb/a/aa/Manik_Saha_Official_Portrait_2023.jpg/500px-Manik_Saha_Official_Portrait_2023.jpg"],
     [key |-> <<"U","t","t","a","r"," ","P","r","a","d","e","s","h">>,
      img |-> "https://upload.wikimedia.org/wikipedia/commons/thumb/1/12/PM_and_UP_CM_at_laying_the_foundation_stone_of_the_International_Cricket_Stadium_at_Varanasi%2C_in_Uttar_Pradesh_%283x4_cropped%29.jpg/500px-PM_and_UP_CM_at_laying_the_foundation_stone_of_the_International_Cricket_Stadium_at_Varanasi%2C_in_Uttar_Pradesh_%283x4_cropped%29.jpg"],
     [key |-> <<"U","t","t","a","r","a","k","h","a","n","d">>,
      img |-> "https://upload.wikimedia.org/wikipedia/commons/9/95/Pushkar_Singh_Dhami%2C_Chief_Minister_of_Uttarakhand.jpg"],
     [key |-> <<"W","e","s","t"," ","B","e","n","g","a","l">>,
      img |-> "https://upload.wikimedia.org/wikipedia/commons/thumb/4/4d/Official_portrait_of_Mamata_Banerjee.jpg/500px-Official_portrait_of_Mamata_Banerjee.jpg"] >>

\* Object.keys(CM_DATA): the keys in insertion order
Keys == [i \in 1..Len(CM_DATA) |-> CM_DATA[i].key]

\* Array.prototype.find over Object.keys(CM_DATA): the index of the first
\* key among those of S, 0 when there is none (undefined)
findLast(S) == IF S = {} THEN 0 ELSE CHOOSE i \in S : \A j \in S : i >= j

find(S) == IF S = {} THEN 0 ELSE CHOOSE i \in S : \A j \in S : i <= j

falsyOnlyNull(state) == state = Null

\* !state, for a string | null | undefined
falsy(state) == state = Null \/ Val(state) = <<>>

\* s.toLowerCase().replace(/&/g, "and").trim()
Normalize(s) == trim(replaceAmp(toLowerCase(s)))

normalizedStateNoLowerCase(state) == trim(replaceAmp(state))

normalizedState(state) == Normalize(state)

normalizedKey(key) == Normalize(key)

\* exactMatchKey && CM_DATA[exactMatchKey], and partialMatchKey && ...:
\* the entry's imagery, "" (falsy, as undefined is) when no key was found
imgOf(k) == IF k = 0 THEN "" ELSE CM_DATA[k].img

exactMatchKey(ns) ==
  find({i \in 1..Len(Keys) : normalizedKey(Keys[i]) = ns})

partialMatchKey(ns) ==
  find({i \in 1..Len(Keys) :
          \/ includes(normalizedKey(Keys[i]), ns)
          \/ includes(ns, normalizedKey(Keys[i]))})

getCMImageUrl(state) ==
  IF falsy(state) THEN Null
  ELSE LET ns   == normalizedState(Val(state))
           img  == imgOf(exactMatchKey(ns))
           img2 == imgOf(partialMatchKey(ns))
       IN  IF img # "" THEN Some(img)
           ELSE IF img2 # "" THEN Some(img2)
           ELSE Null

normalizeAndTokenize(str) ==
  splitWords(trim(onlyLettersAndSpace(replaceAmp(toLowerCase(str)))), <<>>)

\* SIMILARITY_THRESHOLD = 0.4, as the fraction 2/5: a score is a quotient of
\* two set sizes, and is kept as the pair of them
ThresholdNum == 2

ThresholdDen == 5

scoreOverStateWords(stateWords, keyWords) ==
  [num |-> Cardinality(stateWords \cap keyWords),
   den |-> Cardinality(stateWords)]

\* intersection.size / union.size
score(stateWords, keyWords) ==
  [num |-> Cardinality(stateWords \cap keyWords),
   den |-> Cardinality(stateWords \cup keyWords)]

scoreGreaterOrEqual(a, b) == a.num * b.den >= b.num * a.den

\* a.num / a.den > b.num / b.den
scoreGreater(a, b) == a.num * b.den > b.num * a.den

\* the loop over Object.keys(CM_DATA), from key i on, with bestMatch so far
RECURSIVE bestMatchFrom(_, _, _)
bestMatchFrom(i, stateWords, bestMatch) ==
  IF i > Len(Keys) THEN bestMatch
  ELSE LET keyWords == normalizeAndTokenize(Keys[i])
           s        == score(stateWords, keyWords)
       IN  IF keyWords = {} THEN bestMatchFrom(i + 1, stateWords, bestMatch)
           ELSE IF scoreGreater(s, bestMatch.score)
                THEN bestMatchFrom(i + 1, stateWords, [key |-> i, score |-> s])
                ELSE bestMatchFrom(i + 1, stateWords, bestMatch)

\* bestMatch = { key: "", score: 0.0 }
bestMatchInit == [key |-> 0, score |-> [num |-> 0, den |-> 1]]

aboveThresholdStrictly(s) == s.num * ThresholdDen > ThresholdNum * s.den

aboveThreshold(s) == s.num * ThresholdDen >= ThresholdNum * s.den

getCMImageUrl2AnyImagery(state) ==
  IF falsy(state) THEN Null
  ELSE LET stateWords == normalizeAndTokenize(Val(state))
           bestMatch  == bestMatchFrom(1, stateWords, bestMatchInit)
       IN  IF stateWords = {} THEN Null
           ELSE IF aboveThreshold(bestMatch.score) /\ bestMatch.key # 0
                THEN Some(imgOf(bestMatch.key))
           ELSE Null

getCMImageUrl2(state) ==
  IF falsy(state) THEN Null
  ELSE LET stateWords == normalizeAndTokenize(Val(state))
           bestMatch  == bestMatchFrom(1, stateWords, bestMatchInit)
           img        == IF aboveThreshold(bestMatch.score)
                         THEN imgOf(bestMatch.key) ELSE ""
       IN  IF stateWords = {} THEN Null
           ELSE IF img # "" THEN Some(img)
           ELSE Null

imgUrlOfFirstOnly(state) == getCMImageUrl(state)

\* getCMImageUrl(state) || getCMImageUrl2(state)
imgUrlOf(state) ==
  LET first == getCMImageUrl(state)
  IN  IF first # Null /\ Val(first) # "" THEN first ELSE getCMImageUrl2(state)

(***************************************************************************)
(* Inputs.                                                                 *)
(***************************************************************************)
\* Bounds of the model: how many distinct position fixes the geolocation
\* device can deliver, how many distinct frames the camera can show, and
\* the longest string of InputAlphabet the matcher is applied to.
NumPositions == 2

NumFrames == 2

MaxInputLen == 3

issueTypes ==
  <<"Pothole", "Waterlogging", "Garbage Dump", "Broken Streetlight", "Other">>

\* position.coords
Positions == {[latitude |-> p, longitude |-> p] : p \in 1..NumPositions}

\* tempCanvas.toDataURL("image/jpeg") of the frame the video shows
Frames == 1..NumFrames

\* err.name of a rejected getUserMedia
CameraErrorNames == {"NotAllowedError", "NotFoundError"}

\* err.code of a GeolocationPositionError (1, 2, 3), and a code outside them
GeoErrorCodes == {0, 1, 2, 3}

Str(s) == Some(s)

\* data.address?.state of a reverse-geocoding response
GeoStates ==
  { Null,
    Str(<<"P","u","n","j","a","b">>),
    Str(<<"D","e","l","h","i",",", " ","I","n","d","i","a">>),
    Str(<<"M","a","n","i","p","u","r">>),
    Str(<<"Z","x","y","l","a","n","d">>),
    Str(<<" ">>) }

\* imgUrlOf over the states a response can carry, tabulated once
imgUrlOfGeoState == [s \in GeoStates |-> imgUrlOf(s)]

\* data.display_name
DisplayNames == {Null, Some(""), Some("123 Main St")}

\* the parsed body of a reverse-geocoding response
GeocodeResponses == [display_name : DisplayNames, state : GeoStates]

(***************************************************************************)
(* Messages.                                                               *)
(***************************************************************************)
MsgCameraGeneric == "Could not access camera. Please check permissions."

MsgCameraDenied ==
  "Camera access was denied. Please grant permission in your browser settings."

MsgGeoGeneric ==
  "Unable to retrieve your location. Please enable location services in your OS and browser."

MsgGeoDenied ==
  "Location access was denied. Please grant permission in your browser settings."

MsgGeoUnavailable ==
  "Location information is unavailable. Please check your network connection or try again."

MsgGeoTimeout ==
  "Failed to get your location in time. Please check your network connection and try again."

MsgNoTemplate == "Failed to create certificate. Certificate template not found."

MsgNoLibrary ==
  "Image generation library not loaded yet. Please try again in a moment."

MsgRenderFailed ==
  "An error occurred while generating the certificate image. This can happen with certain browsers or network conditions."

LoadRequestingCamera == "Requesting camera access..."

LoadFetchingLocation == "Fetching your location..."

LoadPinpointing == "Pinpointing address..."

LoadGenerating == "Generating high-resolution image..."

(***************************************************************************)
(* State.                                                                  *)
(***************************************************************************)
VARIABLES
  step,                 \* useState<AppStep>
  location,             \* useState<LocationState | null>
  error,                \* useState("")
  capturedImage,        \* useState<string | null>
  generatedCertificate, \* useState<string | null>: what the image shows
  loadingMessage,       \* useState("")
  isSharing,            \* useState(false)
  issueType,            \* useState<string | null>
  cmImageUrl,           \* useState<string | null>
  streamRef,            \* useRef<MediaStream | null>
  tracksLive,           \* camera streams whose tracks have not been stopped
  htmlToImage,          \* window.htmlToImage is defined
  cameraPending,        \* getUserMedia promises not yet settled
  geoPending,           \* getCurrentPosition requests not yet answered
  fetchPending,         \* fetch promises not yet settled, with their fix
  jsonPending,          \* response.json() promises not yet settled
  renderTimer,          \* setTimeout(generateCertificate, 100) not yet fired
  toPngPending,         \* htmlToImage.toPng promises, with what they render
  shareTimer,           \* handleShare's setTimeout(..., 500) not yet fired
  shareResetTimer,      \* its setTimeout(() => setIsSharing(false), 2000)
  lastFix,              \* history: position.coords delivered since the last
                        \* startCaptureSequence (Null: none yet)
  lastData,             \* history: the geocoding body parsed since then
  lastGeoError,         \* history: err.code of the last geolocation error
  locationAtStart,      \* history: location when the issue was last selected
  prevStep,             \* history: step before its last change ("": none yet)
  downloaded,           \* history: link.click() was called on the certificate now stored
  mState,               \* the argument the matcher is called on
  mPhase,               \* "idle" | "call" | "return"
  mResult               \* what the matcher functions returned for mState

appVars ==
  <<step, location, error, capturedImage, generatedCertificate,
    loadingMessage, isSharing, issueType, cmImageUrl, streamRef, tracksLive,
    htmlToImage, cameraPending, geoPending, fetchPending, jsonPending,
    renderTimer, toPngPending, shareTimer, shareResetTimer,
    lastFix, lastData, lastGeoError, locationAtStart, prevStep,
    downloaded>>

matcherVars == <<mState, mPhase, mResult>>

vars == <<appVars, matcherVars>>

\* the state of PotholeCertificateApp after its first render
AppInit ==
  /\ step = "initial"
  /\ location = Null
  /\ error = ""
  /\ capturedImage = Null
  /\ generatedCertificate = Null
  /\ loadingMessage = ""
  /\ isSharing = FALSE
  /\ issueType = Null
  /\ cmImageUrl = Null
  /\ streamRef = Null
  /\ tracksLive = 0
  /\ htmlToImage = FALSE
  /\ cameraPending = 0
  /\ geoPending = 0
  /\ fetchPending = <<>>
  /\ jsonPending = <<>>
  /\ renderTimer = 0
  /\ toPngPending = <<>>
  /\ shareTimer = 0
  /\ shareResetTimer = 0
  /\ lastFix = Null
  /\ lastData = Null
  /\ lastGeoError = Null
  /\ locationAtStart = Null
  /\ prevStep = ""
  /\ downloaded = FALSE

NoMatcherResult == [first |-> Null, second |-> Null, imgUrl |-> Null]

Init ==
  /\ AppInit
  /\ mState = Null
  /\ mPhase = "idle"
  /\ mResult = NoMatcherResult

RemoveAt(s, i) == SubSeq(s, 1, i - 1) \o SubSeq(s, i + 1, Len(s))

\* videoRef.current: the <video> is rendered in the capture step only
videoRefCurrent == step = "capture"

\* certificateRef.current: CertificateDOM is rendered in the generating step
\* and returns null unless location, capturedImage and issueType are set
certificateRefCurrent ==
  /\ step = "generating"
  /\ location # Null
  /\ capturedImage # Null
  /\ issueType # Null

captureEnabledIgnoresLoading ==
  /\ step = "capture"
  /\ location # Null

\* the Capture Photo button is rendered and not disabled
captureEnabled ==
  /\ step = "capture"
  /\ location # Null
  /\ loadingMessage = ""

(***************************************************************************)
(* The Capture Orchestrator.                                               *)
(***************************************************************************)
stopCameraLeavesStream == UNCHANGED <<streamRef, tracksLive>>

\* stopCamera(): stop the tracks of the held stream, if any, and drop it
stopCamera ==
  /\ streamRef' = Null
  /\ tracksLive' = IF streamRef = Null THEN tracksLive ELSE tracksLive - 1

\* The effect on [step, capturedImage, location], run after a render that
\* changed one of them: it schedules generateCertificate.
generatingEffect ==
  renderTimer' =
    renderTimer +
      (IF /\ <<step', capturedImage', location'>> # <<step, capturedImage, location>>
          /\ step' = "generating"
          /\ capturedImage' # Null
          /\ location' # Null
       THEN 1 ELSE 0)

\* history: the step a change of step started from
stepHistory == prevStep' = IF step' # step THEN step ELSE prevStep

\* history: a certificate handed to the browser is the one still stored
downloadHistory ==
  downloaded' = (downloaded /\ generatedCertificate' = generatedCertificate)

\* The html-to-image script, appended on mount, finishes loading.
ScriptLoaded ==
  /\ ~htmlToImage
  /\ htmlToImage' = TRUE
  /\ UNCHANGED <<step, location, error, capturedImage, generatedCertificate,
                 loadingMessage, isSharing, issueType, cmImageUrl, streamRef,
                 tracksLive, cameraPending, geoPending, fetchPending,
                 jsonPending, renderTimer, toPngPending, shareTimer,
                 shareResetTimer, lastFix, lastData, lastGeoError>>
  /\ UNCHANGED locationAtStart
  /\ UNCHANGED matcherVars
  /\ UNCHANGED prevStep
  /\ downloadHistory

\* The "Report an Issue" button, rendered in the initial step.
ReportIssue ==
  /\ step = "initial"
  /\ step' = "selectIssue"
  /\ UNCHANGED <<location, error, capturedImage, generatedCertificate,
                 loadingMessage, isSharing, issueType, cmImageUrl, streamRef,
                 tracksLive, htmlToImage, cameraPending, geoPending,
                 fetchPending, jsonPending, toPngPending, shareTimer,
                 shareResetTimer, lastFix, lastData, lastGeoError>>
  /\ UNCHANGED locationAtStart
  /\ UNCHANGED matcherVars
  /\ generatingEffect
  /\ stepHistory
  /\ downloadHistory

startCaptureSequenceNoLoadingMessage(type) ==
  /\ step = "selectIssue"
  /\ issueType' = Some(type)
  /\ error' = ""
  /\ step' = "capture"
  /\ cameraPending' = cameraPending + 1
  /\ locationAtStart' = location
  /\ lastFix' = Null
  /\ lastData' = Null
  /\ UNCHANGED <<location, capturedImage, generatedCertificate, isSharing,
                 loadingMessage, cmImageUrl, streamRef, tracksLive,
                 htmlToImage, geoPending, fetchPending, jsonPending,
                 toPngPending, shareTimer, shareResetTimer, lastGeoError>>
  /\ UNCHANGED matcherVars
  /\ generatingEffect
  /\ stepHistory
  /\ downloadHistory

startCaptureSequenceRequestsBoth(type) ==
  /\ step = "selectIssue"
  /\ issueType' = Some(type)
  /\ error' = ""
  /\ step' = "capture"
  /\ loadingMessage' = LoadRequestingCamera
  /\ cameraPending' = cameraPending + 1
  /\ geoPending' = geoPending + 1
  /\ locationAtStart' = location
  /\ lastFix' = Null
  /\ lastData' = Null
  /\ UNCHANGED <<location, capturedImage, generatedCertificate, isSharing,
                 cmImageUrl, streamRef, tracksLive, htmlToImage,
                 fetchPending, jsonPending, toPngPending, shareTimer,
                 shareResetTimer, lastGeoError>>
  /\ UNCHANGED matcherVars
  /\ generatingEffect
  /\ stepHistory
  /\ downloadHistory

\* An issue button, rendered in the selectIssue step: startCaptureSequence
\* up to its first await.
startCaptureSequence(type) ==
  /\ step = "selectIssue"
  /\ issueType' = Some(type)
  /\ error' = ""
  /\ step' = "capture"
  /\ loadingMessage' = LoadRequestingCamera
  /\ cameraPending' = cameraPending + 1
  /\ locationAtStart' = location
  /\ lastFix' = Null
  /\ lastData' = Null
  /\ UNCHANGED <<location, capturedImage, generatedCertificate, isSharing,
                 cmImageUrl, streamRef, tracksLive, htmlToImage, geoPending,
                 fetchPending, jsonPending, toPngPending, shareTimer,
                 shareResetTimer, lastGeoError>>
  /\ UNCHANGED matcherVars
  /\ generatingEffect
  /\ stepHistory
  /\ downloadHistory

\* getUserMedia resolves: the stream is kept and the position is requested.
CameraGranted ==
  /\ cameraPending > 0
  /\ cameraPending' = cameraPending - 1
  /\ streamRef' = Some("stream")
  /\ tracksLive' = tracksLive + 1
  /\ loadingMessage' = LoadFetchingLocation
  /\ geoPending' = geoPending + 1
  /\ UNCHANGED <<step, location, error, capturedImage, generatedCertificate,
                 isSharing, issueType, cmImageUrl, htmlToImage, fetchPending,
                 jsonPending, renderTimer, toPngPending, shareTimer,
                 shareResetTimer, lastFix, lastData, lastGeoError>>
  /\ UNCHANGED locationAtStart
  /\ UNCHANGED matcherVars
  /\ UNCHANGED prevStep
  /\ downloadHistory

cameraErrorMessage(name) ==
  IF name = "NotAllowedError" THEN MsgCameraDenied ELSE MsgCameraGeneric

CameraFailedSilently(name) ==
  /\ cameraPending > 0
  /\ cameraPending' = cameraPending - 1
  /\ stopCamera
  /\ step' = "initial"
  /\ UNCHANGED <<location, error, capturedImage, generatedCertificate,
                 loadingMessage, isSharing, issueType, cmImageUrl,
                 htmlToImage, geoPending, fetchPending, jsonPending,
                 toPngPending, shareTimer, shareResetTimer, lastFix,
                 lastData, lastGeoError>>
  /\ UNCHANGED locationAtStart
  /\ UNCHANGED matcherVars
  /\ generatingEffect
  /\ stepHistory
  /\ downloadHistory

\* getUserMedia rejects: the catch block.
CameraFailed(name) ==
  /\ cameraPending > 0
  /\ cameraPending' = cameraPending - 1
  /\ error' = cameraErrorMessage(name)
  /\ stopCamera
  /\ step' = "initial"
  /\ UNCHANGED <<location, capturedImage, generatedCertificate,
                 loadingMessage, isSharing, issueType, cmImageUrl,
                 htmlToImage, geoPending, fetchPending, jsonPending,
                 toPngPending, shareTimer, shareResetTimer, lastFix,
                 lastData, lastGeoError>>
  /\ UNCHANGED locationAtStart
  /\ UNCHANGED matcherVars
  /\ generatingEffect
  /\ stepHistory
  /\ downloadHistory

\* An issue button when navigator.mediaDevices is undefined (a page served
\* over plain http): the call of getUserMedia throws a TypeError before
\* anything is awaited, the catch block runs in the click handler, and the
\* updates of startCaptureSequence and of its catch block are committed
\* together.
startCaptureSequenceThrows(type) ==
  /\ step = "selectIssue"
  /\ issueType' = Some(type)
  /\ loadingMessage' = LoadRequestingCamera
  /\ error' = cameraErrorMessage("TypeError")
  /\ stopCamera
  /\ step' = "initial"
  /\ locationAtStart' = location
  /\ lastFix' = Null
  /\ lastData' = Null
  /\ UNCHANGED <<location, capturedImage, generatedCertificate, isSharing,
                 cmImageUrl, htmlToImage, cameraPending, geoPending,
                 fetchPending, jsonPending, toPngPending, shareTimer,
                 shareResetTimer, lastGeoError>>
  /\ UNCHANGED matcherVars
  /\ generatingEffect
  /\ stepHistory
  /\ downloadHistory

\* The success callback of getCurrentPosition, up to its first await.
GeoSuccess(coords) ==
  /\ geoPending > 0
  /\ geoPending' = geoPending - 1
  /\ loadingMessage' = LoadPinpointing
  /\ fetchPending' = Append(fetchPending, coords)
  /\ lastFix' = Some(coords)
  /\ UNCHANGED <<step, location, error, capturedImage, generatedCertificate,
                 isSharing, issueType, cmImageUrl, streamRef, tracksLive,
                 htmlToImage, cameraPending, jsonPending, renderTimer,
                 toPngPending, shareTimer, shareResetTimer, lastData,
                 lastGeoError>>
  /\ UNCHANGED locationAtStart
  /\ UNCHANGED matcherVars
  /\ UNCHANGED prevStep
  /\ downloadHistory

geoErrorMessageNoTimeoutCase(code) ==
  IF code = 1 THEN MsgGeoDenied
  ELSE IF code = 2 THEN MsgGeoUnavailable
  ELSE MsgGeoGeneric

geoErrorMessage(code) ==
  IF code = 1 THEN MsgGeoDenied
  ELSE IF code = 2 THEN MsgGeoUnavailable
  ELSE IF code = 3 THEN MsgGeoTimeout
  ELSE MsgGeoGeneric

\* The error callback of getCurrentPosition.
GeoError(code) ==
  /\ geoPending > 0
  /\ geoPending' = geoPending - 1
  /\ lastGeoError' = Some(code)
  /\ error' = geoErrorMessage(code)
  /\ stopCamera
  /\ step' = "initial"
  /\ UNCHANGED <<location, capturedImage, generatedCertificate,
                 loadingMessage, isSharing, issueType, cmImageUrl,
                 htmlToImage, cameraPending, fetchPending, jsonPending,
                 toPngPending, shareTimer, shareResetTimer, lastFix,
                 lastData>>
  /\ UNCHANGED locationAtStart
  /\ UNCHANGED matcherVars
  /\ generatingEffect
  /\ stepHistory
  /\ downloadHistory

\* fetch resolves with a response: response.json() is awaited.
FetchResolved(i) ==
  /\ i \in 1..Len(fetchPending)
  /\ fetchPending' = RemoveAt(fetchPending, i)
  /\ jsonPending' = Append(jsonPending, fetchPending[i])
  /\ UNCHANGED <<step, location, error, capturedImage, generatedCertificate,
                 loadingMessage, isSharing, issueType, cmImageUrl, streamRef,
                 tracksLive, htmlToImage, cameraPending, geoPending,
                 renderTimer, toPngPending, shareTimer, shareResetTimer,
                 lastFix, lastData, lastGeoError>>
  /\ UNCHANGED locationAtStart
  /\ UNCHANGED matcherVars
  /\ UNCHANGED prevStep
  /\ downloadHistory

\* fetch rejects (no network): the async callback's promise rejects, and
\* nothing observes it.
FetchRejected(i) ==
  /\ i \in 1..Len(fetchPending)
  /\ fetchPending' = RemoveAt(fetchPending, i)
  /\ UNCHANGED <<step, location, error, capturedImage, generatedCertificate,
                 loadingMessage, isSharing, issueType, cmImageUrl, streamRef,
                 tracksLive, htmlToImage, cameraPending, geoPending,
                 jsonPending, renderTimer, toPngPending, shareTimer,
                 shareResetTimer, lastFix, lastData, lastGeoError>>
  /\ UNCHANGED locationAtStart
  /\ UNCHANGED matcherVars
  /\ UNCHANGED prevStep
  /\ downloadHistory

addressOfAbsentOnly(data) ==
  IF data.display_name = Null
  THEN "Address not found"
  ELSE Val(data.display_name)

\* data.display_name || "Address not found"
addressOf(data) ==
  IF data.display_name = Null \/ Val(data.display_name) = ""
  THEN "Address not found"
  ELSE Val(data.display_name)

locationOf(coords, data) ==
  [latitude  |-> coords.latitude,
   longitude |-> coords.longitude,
   address   |-> addressOf(data)]

\* response.json() resolves with data: the rest of the success callback.
JsonResolved(i, data) ==
  /\ i \in 1..Len(jsonPending)
  /\ jsonPending' = RemoveAt(jsonPending, i)
  /\ lastData' = Some(data)
  /\ cmImageUrl' = imgUrlOfGeoState[data.state]
  /\ location' = Some(locationOf(jsonPending[i], data))
  /\ loadingMessage' = ""
  /\ UNCHANGED <<step, error, capturedImage, generatedCertificate, isSharing,
                 issueType, streamRef, tracksLive, htmlToImage,
                 cameraPending, geoPending, fetchPending, toPngPending,
                 shareTimer, shareResetTimer, lastFix, lastGeoError>>
  /\ UNCHANGED locationAtStart
  /\ UNCHANGED matcherVars
  /\ generatingEffect
  /\ stepHistory
  /\ downloadHistory

\* response.json() rejects (the body is not JSON): as for a rejected fetch.
JsonRejected(i) ==
  /\ i \in 1..Len(jsonPending)
  /\ jsonPending' = RemoveAt(jsonPending, i)
  /\ UNCHANGED <<step, location, error, capturedImage, generatedCertificate,
                 loadingMessage, isSharing, issueType, cmImageUrl, streamRef,
                 tracksLive, htmlToImage, cameraPending, geoPending,
                 fetchPending, renderTimer, toPngPending, shareTimer,
                 shareResetTimer, lastFix, lastData, lastGeoError>>
  /\ UNCHANGED locationAtStart
  /\ UNCHANGED matcherVars
  /\ UNCHANGED prevStep
  /\ downloadHistory

\* The Capture Photo button: handleCapture, and the effect that follows the
\* render.  getContext("2d") may return null, and then no frame is stored.
handleCaptureKeepsStep(contextOk, frame) ==
  /\ captureEnabled
  /\ capturedImage' = IF contextOk THEN Some(frame) ELSE capturedImage
  /\ stopCamera
  /\ UNCHANGED <<step, location, error, generatedCertificate, loadingMessage,
                 isSharing, issueType, cmImageUrl, htmlToImage,
                 cameraPending, geoPending, fetchPending, jsonPending,
                 toPngPending, shareTimer, shareResetTimer, lastFix,
                 lastData, lastGeoError>>
  /\ UNCHANGED locationAtStart
  /\ UNCHANGED matcherVars
  /\ generatingEffect
  /\ stepHistory
  /\ downloadHistory

handleCapture(contextOk, frame) ==
  /\ captureEnabled
  /\ IF videoRefCurrent
     THEN /\ capturedImage' = IF contextOk THEN Some(frame) ELSE capturedImage
          /\ stopCamera
          /\ step' = "generating"
     ELSE UNCHANGED <<capturedImage, streamRef, tracksLive, step>>
  /\ UNCHANGED <<location, error, generatedCertificate, loadingMessage,
                 isSharing, issueType, cmImageUrl, htmlToImage,
                 cameraPending, geoPending, fetchPending, jsonPending,
                 toPngPending, shareTimer, shareResetTimer, lastFix,
                 lastData, lastGeoError>>
  /\ UNCHANGED locationAtStart
  /\ UNCHANGED matcherVars
  /\ generatingEffect
  /\ stepHistory
  /\ downloadHistory

\* what htmlToImage.toPng(certificateRef.current) rasterizes: the props of
\* the mounted CertificateDOM
certificateShown ==
  [issueType     |-> Val(issueType),
   location      |-> Val(location),
   capturedImage |-> Val(capturedImage),
   cmImageUrl    |-> cmImageUrl]

generateCertificateBackToCapture ==
  /\ renderTimer > 0
  /\ renderTimer' = renderTimer - 1
  /\ IF ~certificateRefCurrent
     THEN /\ error' = MsgNoTemplate
          /\ step' = "initial"
          /\ UNCHANGED <<loadingMessage, toPngPending>>
     ELSE IF ~htmlToImage
     THEN /\ error' = MsgNoLibrary
          /\ step' = "capture"
          /\ UNCHANGED <<loadingMessage, toPngPending>>
     ELSE /\ loadingMessage' = LoadGenerating
          /\ toPngPending' = Append(toPngPending, certificateShown)
          /\ UNCHANGED <<error, step>>
  /\ UNCHANGED <<location, capturedImage, generatedCertificate, isSharing,
                 issueType, cmImageUrl, streamRef, tracksLive, htmlToImage,
                 cameraPending, geoPending, fetchPending, jsonPending,
                 shareTimer, shareResetTimer, lastFix, lastData,
                 lastGeoError>>
  /\ UNCHANGED locationAtStart
  /\ UNCHANGED matcherVars
  /\ UNCHANGED prevStep
  /\ downloadHistory

\* The timer of the effect fires: generateCertificate up to its await.
generateCertificate ==
  /\ renderTimer > 0
  /\ renderTimer' = renderTimer - 1
  /\ IF ~certificateRefCurrent
     THEN /\ error' = MsgNoTemplate
          /\ step' = "initial"
          /\ UNCHANGED <<loadingMessage, toPngPending>>
     ELSE IF ~htmlToImage
     THEN /\ error' = MsgNoLibrary
          /\ step' = "initial"
          /\ UNCHANGED <<loadingMessage, toPngPending>>
     ELSE /\ loadingMessage' = LoadGenerating
          /\ toPngPending' = Append(toPngPending, certificateShown)
          /\ UNCHANGED <<error, step>>
  /\ UNCHANGED <<location, capturedImage, generatedCertificate, isSharing,
                 issueType, cmImageUrl, streamRef, tracksLive, htmlToImage,
                 cameraPending, geoPending, fetchPending, jsonPending,
                 shareTimer, shareResetTimer, lastFix, lastData,
                 lastGeoError>>
  /\ UNCHANGED locationAtStart
  /\ UNCHANGED matcherVars
  /\ UNCHANGED prevStep
  /\ downloadHistory

\* toPng resolves with the data URL of the image.
ToPngResolved(i) ==
  /\ i \in 1..Len(toPngPending)
  /\ toPngPending' = RemoveAt(toPngPending, i)
  /\ generatedCertificate' = Some(toPngPending[i])
  /\ loadingMessage' = ""
  /\ step' = "result"
  /\ UNCHANGED <<location, error, capturedImage, isSharing, issueType,
                 cmImageUrl, streamRef, tracksLive, htmlToImage,
                 cameraPending, geoPending, fetchPending, jsonPending,
                 shareTimer, shareResetTimer, lastFix, lastData,
                 lastGeoError>>
  /\ UNCHANGED locationAtStart
  /\ UNCHANGED matcherVars
  /\ generatingEffect
  /\ stepHistory
  /\ downloadHistory

ToPngRejectedToSelectIssue(i) ==
  /\ i \in 1..Len(toPngPending)
  /\ toPngPending' = RemoveAt(toPngPending, i)
  /\ error' = MsgRenderFailed
  /\ step' = "selectIssue"
  /\ UNCHANGED <<location, capturedImage, generatedCertificate,
                 loadingMessage, isSharing, issueType, cmImageUrl, streamRef,
                 tracksLive, htmlToImage, cameraPending, geoPending,
                 fetchPending, jsonPending, shareTimer, shareResetTimer,
                 lastFix, lastData, lastGeoError>>
  /\ UNCHANGED locationAtStart
  /\ UNCHANGED matcherVars
  /\ generatingEffect
  /\ stepHistory
  /\ downloadHistory

\* toPng rejects: the catch block of generateCertificate.
ToPngRejected(i) ==
  /\ i \in 1..Len(toPngPending)
  /\ toPngPending' = RemoveAt(toPngPending, i)
  /\ error' = MsgRenderFailed
  /\ step' = "initial"
  /\ UNCHANGED <<location, capturedImage, generatedCertificate,
                 loadingMessage, isSharing, issueType, cmImageUrl, streamRef,
                 tracksLive, htmlToImage, cameraPending, geoPending,
                 fetchPending, jsonPending, shareTimer, shareResetTimer,
                 lastFix, lastData, lastGeoError>>
  /\ UNCHANGED locationAtStart
  /\ UNCHANGED matcherVars
  /\ generatingEffect
  /\ stepHistory
  /\ downloadHistory

\* the result view, with its three buttons, is rendered
resultShown == step = "result" /\ generatedCertificate # Null

handleResetKeepsCertificate ==
  /\ resultShown
  /\ step' = "initial"
  /\ location' = Null
  /\ error' = ""
  /\ capturedImage' = Null
  /\ stopCamera
  /\ issueType' = Null
  /\ UNCHANGED <<generatedCertificate, loadingMessage, isSharing, cmImageUrl,
                 htmlToImage, cameraPending, geoPending, fetchPending,
                 jsonPending, toPngPending, shareTimer, shareResetTimer,
                 lastFix, lastData, lastGeoError>>
  /\ UNCHANGED locationAtStart
  /\ UNCHANGED matcherVars
  /\ generatingEffect
  /\ stepHistory
  /\ downloadHistory

handleResetKeepsImage ==
  /\ resultShown
  /\ step' = "initial"
  /\ location' = Null
  /\ error' = ""
  /\ generatedCertificate' = Null
  /\ stopCamera
  /\ issueType' = Null
  /\ UNCHANGED <<capturedImage, loadingMessage, isSharing, cmImageUrl,
                 htmlToImage, cameraPending, geoPending, fetchPending,
                 jsonPending, toPngPending, shareTimer, shareResetTimer,
                 lastFix, lastData, lastGeoError>>
  /\ UNCHANGED locationAtStart
  /\ UNCHANGED matcherVars
  /\ generatingEffect
  /\ stepHistory
  /\ downloadHistory

\* The Start Over button: handleReset.
handleReset ==
  /\ resultShown
  /\ step' = "initial"
  /\ location' = Null
  /\ error' = ""
  /\ capturedImage' = Null
  /\ generatedCertificate' = Null
  /\ stopCamera
  /\ issueType' = Null
  /\ UNCHANGED <<loadingMessage, isSharing, cmImageUrl, htmlToImage,
                 cameraPending, geoPending, fetchPending, jsonPending,
                 toPngPending, shareTimer, shareResetTimer, lastFix,
                 lastData, lastGeoError>>
  /\ UNCHANGED locationAtStart
  /\ UNCHANGED matcherVars
  /\ generatingEffect
  /\ stepHistory
  /\ downloadHistory

\* The Download button of the result view: handleDownload.
handleDownload ==
  /\ resultShown
  /\ IF generatedCertificate = Null
     THEN UNCHANGED downloaded
     ELSE downloaded' = TRUE
  /\ UNCHANGED <<step, location, error, capturedImage, generatedCertificate,
                 loadingMessage, isSharing, issueType, cmImageUrl, streamRef,
                 tracksLive, htmlToImage, cameraPending, geoPending,
                 fetchPending, jsonPending, renderTimer, toPngPending,
                 shareTimer, shareResetTimer, lastFix, lastData,
                 lastGeoError>>
  /\ UNCHANGED locationAtStart
  /\ UNCHANGED matcherVars
  /\ UNCHANGED prevStep

handleShareWhileSharing ==
  /\ resultShown
  /\ IF location = Null \/ generatedCertificate = Null \/ issueType = Null
     THEN UNCHANGED <<isSharing, shareTimer, downloaded>>
     ELSE /\ isSharing' = TRUE
          /\ downloaded' = TRUE
          /\ shareTimer' = shareTimer + 1
  /\ UNCHANGED <<step, location, error, capturedImage, generatedCertificate,
                 loadingMessage, issueType, cmImageUrl, streamRef,
                 tracksLive, htmlToImage, cameraPending, geoPending,
                 fetchPending, jsonPending, renderTimer, toPngPending,
                 shareResetTimer, lastFix, lastData, lastGeoError>>
  /\ UNCHANGED locationAtStart
  /\ UNCHANGED matcherVars
  /\ UNCHANGED prevStep

\* The Share on X button (disabled while isSharing): handleShare.
handleShare ==
  /\ resultShown
  /\ ~isSharing
  /\ IF location = Null \/ generatedCertificate = Null \/ isSharing
        \/ issueType = Null
     THEN UNCHANGED <<isSharing, shareTimer, downloaded>>
     ELSE /\ isSharing' = TRUE
          /\ IF generatedCertificate = Null
             THEN UNCHANGED downloaded
             ELSE downloaded' = TRUE
          /\ shareTimer' = shareTimer + 1
  /\ UNCHANGED <<step, location, error, capturedImage, generatedCertificate,
                 loadingMessage, issueType, cmImageUrl, streamRef,
                 tracksLive, htmlToImage, cameraPending, geoPending,
                 fetchPending, jsonPending, renderTimer, toPngPending,
                 shareResetTimer, lastFix, lastData, lastGeoError>>
  /\ UNCHANGED locationAtStart
  /\ UNCHANGED matcherVars
  /\ UNCHANGED prevStep

\* handleShare's first timer fires: the tweet window is opened and the
\* timer that re-enables the button is set.
ShareTimerFires ==
  /\ shareTimer > 0
  /\ shareTimer' = shareTimer - 1
  /\ shareResetTimer' = shareResetTimer + 1
  /\ UNCHANGED <<step, location, error, capturedImage, generatedCertificate,
                 loadingMessage, isSharing, issueType, cmImageUrl, streamRef,
                 tracksLive, htmlToImage, cameraPending, geoPending,
                 fetchPending, jsonPending, renderTimer, toPngPending,
                 lastFix, lastData, lastGeoError>>
  /\ UNCHANGED locationAtStart
  /\ UNCHANGED matcherVars
  /\ UNCHANGED prevStep
  /\ downloadHistory

\* handleShare's second timer fires: setIsSharing(false).
ShareResetTimerFires ==
  /\ shareResetTimer > 0
  /\ shareResetTimer' = shareResetTimer - 1
  /\ isSharing' = FALSE
  /\ UNCHANGED <<step, location, error, capturedImage, generatedCertificate,
                 loadingMessage, issueType, cmImageUrl, streamRef,
                 tracksLive, htmlToImage, cameraPending, geoPending,
                 fetchPending, jsonPending, renderTimer, toPngPending,
                 shareTimer, lastFix, lastData, lastGeoError>>
  /\ UNCHANGED locationAtStart
  /\ UNCHANGED matcherVars
  /\ UNCHANGED prevStep
  /\ downloadHistory

Next ==
  \/ ScriptLoaded
  \/ ReportIssue
  \/ \E i \in 1..Len(issueTypes) : startCaptureSequence(issueTypes[i])
  \/ \E i \in 1..Len(issueTypes) : startCaptureSequenceThrows(issueTypes[i])
  \/ CameraGranted
  \/ \E name \in CameraErrorNames : CameraFailed(name)
  \/ \E coords \in Positions : GeoSuccess(coords)
  \/ \E code \in GeoErrorCodes : GeoError(code)
  \/ \E i \in 1..Len(fetchPending) : FetchResolved(i)
  \/ \E i \in 1..Len(fetchPending) : FetchRejected(i)
  \/ \E i \in 1..Len(jsonPending), data \in GeocodeResponses : JsonResolved(i, data)
  \/ \E i \in 1..Len(jsonPending) : JsonRejected(i)
  \/ \E contextOk \in BOOLEAN, frame \in Frames : handleCapture(contextOk, frame)
  \/ generateCertificate
  \/ \E i \in 1..Len(toPngPending) : ToPngResolved(i)
  \/ \E i \in 1..Len(toPngPending) : ToPngRejected(i)
  \/ handleReset
  \/ handleDownload
  \/ handleShare
  \/ ShareTimerFires
  \/ ShareResetTimerFires

Spec == Init /\ [][Next]_vars

\* The program with its timers: a timer that was set fires.
TimerSpec ==
  /\ Init
  /\ [][Next]_vars
  /\ WF_vars(ShareTimerFires)
  /\ WF_vars(ShareResetTimerFires)

(***************************************************************************)
(* The happy path: every request succeeds, the user captures a frame, and  *)
(* the rasterizer is loaded when generateCertificate runs.  Every step     *)
(* that can be taken is eventually taken.                                  *)
(***************************************************************************)
HappyNext ==
  \/ ScriptLoaded
  \/ ReportIssue
  \/ \E i \in 1..Len(issueTypes) : startCaptureSequence(issueTypes[i])
  \/ CameraGranted
  \/ \E coords \in Positions : GeoSuccess(coords)
  \/ \E i \in 1..Len(fetchPending) : FetchResolved(i)
  \/ \E i \in 1..Len(jsonPending), data \in GeocodeResponses : JsonResolved(i, data)
  \/ \E frame \in Frames : handleCapture(TRUE, frame)
  \/ (htmlToImage /\ generateCertificate)
  \/ \E i \in 1..Len(toPngPending) : ToPngResolved(i)
  \/ handleReset

HappySpec == Init /\ [][HappyNext]_vars /\ WF_vars(HappyNext)

(***************************************************************************)
(* The Region Matcher as a pure function: it is called on one argument.    *)
(***************************************************************************)
InputAlphabet == {"g", "o", "a", "G", " ", "&"}

BoundedStrings == UNION {[1..n -> InputAlphabet] : n \in 0..MaxInputLen}

toUpperCaseChar(c) ==
  IF \E i \in 1..Len(LowerCase) : LowerCase[i] = c
  THEN UpperCase[CHOOSE i \in 1..Len(LowerCase) : LowerCase[i] = c]
  ELSE c

toUpperCase(s) == [i \in 1..Len(s) |-> toUpperCaseChar(s[i])]

Padded(s) == <<" ">> \o s \o <<"\t", " ">>

\* every catalog key as written, in either case, and with space around it
KeyVariants ==
  UNION {{Keys[i], toLowerCase(Keys[i]), toUpperCase(Keys[i]),
          Padded(Keys[i]), Padded(toUpperCase(Keys[i]))} : i \in 1..Len(Keys)}

NamedRegions ==
  { <<"J","a","m","m","u"," ","a","n","d"," ","K","a","s","h","m","i","r">>,
    <<"J","A","M","M","U"," ","A","N","D"," ","K","A","S","H","M","I","R">>,
    <<"k","a","s","h","m","i","r"," ","j","a","m","m","u">>,
    <<"j","a","m","m","u"," ","k","a","s","h","m","i","r">>,
    <<"D","e","l","h","i",","," ","I","n","d","i","a">>,
    <<"N","C","T"," ","o","f"," ","D","e","l","h","i">>,
    <<"Z","x","y","l","a","n","d">>,
    <<"P","r","a","d","e","s","h">>,
    <<"U","t","t","a","r">>,
    <<"S","t","a","t","e"," ","o","f"," ","T","a","m","i","l"," ","N","a","d","u">>,
    <<"B","e","n","g","a","l"," ","W","e","s","t"," ","I","n","d","i","a">>,
    <<"A","n","d","h","r","a"," ","P","r","a","d","e","s","h"," ","o","f"," ","S","o","u","t","h"," ","I","n","d","i","a">>,
    <<"A","n","d","h","r","a"," ","P","r","a","d","e","s","h"," ","o","f"," ","t","h","e"," ","S","o","u","t","h"," ","I","n","d","i","a">>,
    <<"M","a","n","i","p","u","r"," ","S","t","a","t","e">>,
    <<"1","2","3">> }

RegionInputs ==
  {Null} \cup {Str(s) : s \in BoundedStrings \cup KeyVariants \cup NamedRegions}

MatcherInit ==
  /\ AppInit
  /\ mState \in RegionInputs
  /\ mPhase = "call"
  /\ mResult = NoMatcherResult

CallMatcher ==
  /\ mPhase = "call"
  /\ mPhase' = "return"
  /\ mResult' = [first  |-> getCMImageUrl(mState),
                 second |-> getCMImageUrl2(mState),
                 imgUrl |-> imgUrlOf(mState)]
  /\ UNCHANGED <<mState, appVars>>

MatcherNext == CallMatcher

MatcherSpec == MatcherInit /\ [][MatcherNext]_vars

(***************************************************************************)
(* Properties.                                                             *)
(***************************************************************************)

\* C1: a camera stream is held only while the step is 'capture': in the
\* steps initial, selectIssue, generating and result streamRef is null and
\* no stream has live tracks.
C1_StreamOnlyInCapture ==
  step # "capture" => (streamRef = Null /\ tracksLive = 0)

\* C1 witness: the flow left 'capture' for 'generating' after the camera
\* had been granted, and the stream is released.
C1_Witness ==
  /\ step = "generating"
  /\ capturedImage # Null
  /\ streamRef = Null
  /\ tracksLive = 0

\* the reverse-geocoding request of the current attempt was made and has
\* failed: a fix was delivered, no body was parsed, and nothing is pending
geocodingFailed ==
  /\ lastFix # Null
  /\ lastData = Null
  /\ fetchPending = <<>>
  /\ jsonPending = <<>>

\* C2: when the reverse-geocoding request made after a position fix fails
\* (the fetch rejects, or the body cannot be parsed), an error message is
\* shown, the camera stream is released and the step is 'initial'.
C2_GeocodingFailureHandled ==
  geocodingFailed =>
    (step = "initial" /\ error # "" /\ streamRef = Null /\ tracksLive = 0)

\* C3: the step is 'result' only when capturedImage, location and issueType
\* are all non-null, and generatedCertificate is non-null exactly when the
\* step is 'result'.
C3_ResultNeedsAllInputs ==
  /\ step = "result" =>
       (capturedImage # Null /\ location # Null /\ issueType # Null)
  /\ generatedCertificate # Null <=> step = "result"

\* C3 witness: a certificate was rendered and the step is 'result'.
C3_Witness ==
  /\ step = "result"
  /\ generatedCertificate # Null
  /\ capturedImage # Null
  /\ location # Null
  /\ issueType # Null

\* a step in which the error callback of getCurrentPosition ran: a
\* geolocation request was answered and no fetch was issued
geoErrorStep ==
  /\ geoPending' = geoPending - 1
  /\ Len(fetchPending') = Len(fetchPending)

\* C4: from step 'capture', a geolocation failure leads to 'initial' with
\* the camera stream released and a message determined by the cause: codes
\* 1, 2 and 3 each set a message of their own (code 3 the timeout message)
\* and any other code sets the generic location message.
C4_GeoFailureClassified ==
  [][ (step = "capture" /\ geoPending > 0 /\ geoErrorStep) =>
        /\ step' = "initial"
        /\ streamRef' = Null
        /\ tracksLive' = 0
        /\ lastGeoError' # Null
        /\ (error' = MsgGeoDenied) <=> (Val(lastGeoError') = 1)
        /\ (error' = MsgGeoUnavailable) <=> (Val(lastGeoError') = 2)
        /\ (error' = MsgGeoTimeout) <=> (Val(lastGeoError') = 3)
        /\ (error' = MsgGeoGeneric) <=> (Val(lastGeoError') \notin {1, 2, 3})
    ]_vars

\* C4 witness: the geolocation request timed out; the step is 'initial',
\* the stream is released and the timeout message is shown.
C4_Witness ==
  /\ step = "initial"
  /\ lastGeoError = Some(3)
  /\ error = MsgGeoTimeout
  /\ streamRef = Null
  /\ issueType # Null

\* a step of handleReset: the only step from the result view to 'initial'
resetStep == resultShown /\ step' = "initial"

\* C5: handleReset sets step to 'initial', sets location, capturedImage,
\* issueType and generatedCertificate to null and error to the empty
\* string in one step, and leaves no camera stream held.
C5_ResetClearsReport ==
  [][ resetStep =>
        /\ location' = Null
        /\ capturedImage' = Null
        /\ issueType' = Null
        /\ generatedCertificate' = Null
        /\ error' = ""
        /\ streamRef' = Null
        /\ tracksLive' = 0
    ]_vars

\* C5 witness: the state after a reset of a finished session (a geocoding
\* body had been parsed, and the report is empty again).
C5_Witness ==
  /\ step = "initial"
  /\ lastData # Null
  /\ issueType = Null
  /\ location = Null
  /\ capturedImage = Null
  /\ generatedCertificate = Null
  /\ error = ""

\* C6: after handleReset every piece of session state (issueType, location,
\* capturedImage, cmImageUrl, generatedCertificate, error, loadingMessage,
\* the camera stream) equals its value at page load.  The step is 'initial'
\* with issueType null at page load and after a reset only.
C6_ResetRestoresInitialState ==
  (step = "initial" /\ issueType = Null) =>
    /\ location = Null
    /\ capturedImage = Null
    /\ cmImageUrl = Null
    /\ generatedCertificate = Null
    /\ error = ""
    /\ loadingMessage = ""
    /\ streamRef = Null

\* the order of the steps of a session, a reset closing the cycle
HappyEdges ==
  { <<"initial", "selectIssue">>, <<"selectIssue", "capture">>,
    <<"capture", "generating">>, <<"generating", "result">>,
    <<"result", "initial">> }

\* C7: on the happy path (camera granted, fix obtained, geocoding answered,
\* frame captured, rasterizer loaded and successful) every session that
\* starts eventually reaches step 'result' with a non-null
\* generatedCertificate, and the step only moves initial -> selectIssue ->
\* capture -> generating -> result.
C7_HappyPathReachesResult ==
  /\ [][step' # step => <<step, step'>> \in HappyEdges]_vars
  /\ (step = "initial") ~> (step = "result" /\ generatedCertificate # Null)

\* C7 witness: the result of a happy path, showing what was captured.
C7_Witness ==
  /\ step = "result"
  /\ generatedCertificate # Null
  /\ Val(generatedCertificate).location.address = "123 Main St"
  /\ Val(generatedCertificate).capturedImage = Val(capturedImage)
  /\ Val(generatedCertificate).cmImageUrl
       = getCMImageUrl(Str(<<"P","u","n","j","a","b">>))
  /\ cmImageUrl # Null
  /\ error = ""

\* C8: the capture action is enabled only while a live camera stream is
\* held and the reverse-geocoding response of the current attempt has been
\* stored: no request is pending and location is the one built from the
\* fix and the body delivered since the issue was selected.
C8_CaptureNeedsStreamAndLocation ==
  captureEnabled =>
    /\ streamRef # Null
    /\ tracksLive = 1
    /\ cameraPending = 0
    /\ geoPending = 0
    /\ fetchPending = <<>>
    /\ jsonPending = <<>>
    /\ lastFix # Null
    /\ lastData # Null
    /\ location = Some(locationOf(Val(lastFix), Val(lastData)))

\* C8 witness: capture is enabled in an attempt that follows a rendering
\* failure (the location and the photo of the earlier attempt were still
\* stored when the issue was selected).
C8_Witness ==
  /\ captureEnabled
  /\ locationAtStart # Null
  /\ capturedImage # Null
  /\ streamRef # Null

\* C9: the location and the imagery on a rendered certificate come from the
\* position fix and the geocoding response obtained after the most recent
\* issue selection, and at most one geolocation request is in flight.
C9_NoStalePosition ==
  /\ geoPending <= 1
  /\ step = "result" =>
       /\ lastFix # Null
       /\ lastData # Null
       /\ Val(generatedCertificate).location
            = locationOf(Val(lastFix), Val(lastData))
       /\ Val(generatedCertificate).cmImageUrl
            = imgUrlOfGeoState[Val(lastData).state]

\* C9 witness: a certificate rendered in an attempt that began with the
\* location of an earlier attempt still stored; it shows the location of
\* the new fix and response, not the stored one.
C9_Witness ==
  /\ step = "result"
  /\ locationAtStart # Null
  /\ Val(generatedCertificate).location # Val(locationAtStart)
  /\ Val(generatedCertificate).location
       = locationOf(Val(lastFix), Val(lastData))

\* the argument equals key i of the catalog after normalization
matchesKey(i) ==
  /\ ~falsy(mState)
  /\ Normalize(Val(mState)) = Normalize(Keys[i])

\* C10 as claimed: for every non-empty input that equals a catalog key
\* after normalization, getCMImageUrl returns that key's imagery, for every
\* key, the one with the empty imagery included.
C10_ExactMatchReturnsImagery ==
  mPhase = "return" =>
    \A i \in 1..Len(Keys) :
      matchesKey(i) => mResult.first = Some(CM_DATA[i].img)

\* C10 as amended: for every non-empty input that equals a catalog key
\* after normalization, getCMImageUrl (and the combination with
\* getCMImageUrl2) returns that key's imagery when it is not empty, and
\* null when it is the empty string.
C10_ExactMatchReturnsUsableImagery ==
  mPhase = "return" =>
    \A i \in 1..Len(Keys) :
      matchesKey(i) =>
        /\ mResult.first =
             (IF CM_DATA[i].img = "" THEN Null ELSE Some(CM_DATA[i].img))
        /\ mResult.imgUrl = mResult.first

\* C10 witness: the matcher returned for an input that is a catalog key
\* only after normalization (another case, or space around it).
C10_Witness ==
  /\ mPhase = "return"
  /\ \E i \in 1..Len(Keys) :
       /\ matchesKey(i)
       /\ Val(mState) # Keys[i]
       /\ Len(Val(mState)) > Len(Keys[i])
       /\ mResult.first = Some(CM_DATA[i].img)

\* C11: for an empty string, null or undefined argument, getCMImageUrl,
\* getCMImageUrl2 and their combination all return null.
C11_EmptyInputNoMatch ==
  (mPhase = "return" /\ (mState = Null \/ mState = Str(<<>>))) =>
    /\ mResult.first = Null
    /\ mResult.second = Null
    /\ mResult.imgUrl = Null

\* C11 witness: the matcher returned null for the empty string.
C11_Witness ==
  /\ mPhase = "return"
  /\ mState = Str(<<>>)
  /\ mResult.first = Null
  /\ mResult.second = Null

\* the word set of the argument, and the sizes of its intersection and
\* union with the word set of key i
inputWords == normalizeAndTokenize(Val(mState))

common(i) == Cardinality(inputWords \cap normalizeAndTokenize(Keys[i]))

united(i) == Cardinality(inputWords \cup normalizeAndTokenize(Keys[i]))

\* C12: getCMImageUrl2 returns an image only if some catalog key has a
\* Jaccard similarity of at least 0.4 (2/5) with the argument's word set;
\* when the highest similarity is exactly 0.4 an image is returned, and
\* for "Zxyland" null is returned.
C12_ThresholdOfTokenOverlap ==
  (mPhase = "return" /\ ~(mState = Null \/ mState = Str(<<>>))) =>
    /\ mResult.second # Null =>
         \E i \in 1..Len(Keys) : 5 * common(i) >= 2 * united(i)
    /\ ( /\ \E i \in 1..Len(Keys) : 5 * common(i) = 2 * united(i)
         /\ \A i \in 1..Len(Keys) : 5 * common(i) <= 2 * united(i) )
         => mResult.second # Null
    /\ mState = Str(<<"Z","x","y","l","a","n","d">>) => mResult.second = Null

\* C12 witness: an argument whose best similarity is exactly 2/5 (two of
\* its five words are the two words of a key), for which an image is
\* returned.
C12_Witness ==
  /\ mPhase = "return"
  /\ mState # Null
  /\ \E i \in 1..Len(Keys) : common(i) = 2 /\ united(i) = 5
  /\ \A i \in 1..Len(Keys) : 5 * common(i) <= 2 * united(i)
  /\ mResult.second # Null

\* the whitespace-separated words of a string, in the order they occur
RECURSIVE wordsInOrder(_, _)
wordsInOrder(s, word) ==
  IF s = <<>> THEN (IF word = <<>> THEN <<>> ELSE <<word>>)
  ELSE IF Head(s) \in WhiteSpace
       THEN (IF word = <<>> THEN <<>> ELSE <<word>>) \o wordsInOrder(Tail(s), <<>>)
       ELSE wordsInOrder(Tail(s), Append(word, Head(s)))

\* the words of a sequence of words, last word first, joined by one blank
RECURSIVE joinReversed(_)
joinReversed(ws) ==
  IF ws = <<>> THEN <<>>
  ELSE IF Len(ws) = 1 THEN ws[1]
  ELSE joinReversed(Tail(ws)) \o <<" ">> \o ws[1]

\* the argument with its words in reverse order, and the argument written
\* twice
reversedInput == Str(joinReversed(wordsInOrder(Val(mState), <<>>)))

repeatedInput == Str(Val(mState) \o <<" ">> \o Val(mState))

\* the key the loop of getCMImageUrl2 selects for an argument, 0 for none
selectedKey(state) ==
  bestMatchFrom(1, normalizeAndTokenize(Val(state)), bestMatchInit).key

selectedScore(state) ==
  bestMatchFrom(1, normalizeAndTokenize(Val(state)), bestMatchInit).score

\* C13: the Jaccard score of getCMImageUrl2 is symmetric in its two word
\* sets, and the score, the selected key and the result do not depend on
\* the order of the argument's words nor on their repetition.
C13_ScoreSymmetricOrderFree ==
  (mPhase = "return" /\ ~(mState = Null \/ mState = Str(<<>>))) =>
    /\ \A i \in 1..Len(Keys) :
         score(inputWords, normalizeAndTokenize(Keys[i]))
           = score(normalizeAndTokenize(Keys[i]), inputWords)
    /\ selectedKey(reversedInput) = selectedKey(mState)
    /\ selectedScore(reversedInput) = selectedScore(mState)
    /\ getCMImageUrl2(reversedInput) = mResult.second
    /\ selectedKey(repeatedInput) = selectedKey(mState)
    /\ selectedScore(repeatedInput) = selectedScore(mState)
    /\ getCMImageUrl2(repeatedInput) = mResult.second

\* C13 witness: "kashmir jammu", whose reversal is another string, selects
\* the key "Jammu & Kashmir" with score 2/3 and returns its image.
C13_Witness ==
  /\ mPhase = "return"
  /\ mState = Str(<<"k","a","s","h","m","i","r"," ","j","a","m","m","u">>)
  /\ reversedInput = Str(<<"j","a","m","m","u"," ","k","a","s","h","m","i","r">>)
  /\ selectedKey(mState) # 0
  /\ Keys[selectedKey(mState)]
       = <<"J","a","m","m","u"," ","&"," ","K","a","s","h","m","i","r">>
  /\ selectedScore(mState) = [num |-> 2, den |-> 3]
  /\ mResult.second = Some(CM_DATA[selectedKey(mState)].img)

\* the argument as the substring pass compares it, whether the exact pass
\* found a usable image for it, and the entries the substring pass accepts
inputNormalized == Normalize(Val(mState))

exactPassUsable ==
  \E i \in 1..Len(Keys) :
    Normalize(Keys[i]) = inputNormalized /\ CM_DATA[i].img # ""

substringEntries ==
  {i \in 1..Len(Keys) :
     \/ includes(Normalize(Keys[i]), inputNormalized)
     \/ includes(inputNormalized, Normalize(Keys[i]))}

\* C14 as stated: when the exact pass yields no usable image,
\* getCMImageUrl returns the imagery of the first entry, in catalog order,
\* whose normalized key contains the normalized argument or is contained
\* in it.
C14_SubstringPassReturnsFirstEntry ==
  (mPhase = "return" /\ ~(mState = Null \/ mState = Str(<<>>))
     /\ ~exactPassUsable /\ substringEntries # {}) =>
    \E k \in substringEntries :
      /\ \A j \in substringEntries : k <= j
      /\ mResult.first = Some(CM_DATA[k].img)

\* C14: when the exact pass yields no usable image, getCMImageUrl returns
\* the imagery of the first entry, in catalog order, whose normalized key
\* contains the normalized argument or is contained in it, if that imagery
\* is not the empty string, and null if it is the empty string or there is
\* no such entry; "Delhi, India" gives the imagery of "Delhi".
C14_SubstringPassReturnsFirstUsable ==
  (mPhase = "return" /\ ~(mState = Null \/ mState = Str(<<>>))
     /\ ~exactPassUsable) =>
    /\ substringEntries = {} => mResult.first = Null
    /\ \A k \in substringEntries :
         (\A j \in substringEntries : k <= j) =>
           mResult.first =
             (IF CM_DATA[k].img = "" THEN Null ELSE Some(CM_DATA[k].img))
    /\ mState = Str(<<"D","e","l","h","i",","," ","I","n","d","i","a">>) =>
         \E k \in 1..Len(Keys) :
           /\ Keys[k] = <<"D","e","l","h","i">>
           /\ mResult.first = Some(CM_DATA[k].img)

\* C14 witness: "Delhi, India" equals no key, contains the key "Delhi",
\* and the matcher returned an image for it.
C14_Witness ==
  /\ mPhase = "return"
  /\ mState = Str(<<"D","e","l","h","i",","," ","I","n","d","i","a">>)
  /\ ~exactPassUsable
  /\ Cardinality(substringEntries) = 1
  /\ mResult.first # Null

\* the requests in flight: getUserMedia, getCurrentPosition, and the
\* reverse-geocoding fetch with the reading of its body
cameraRequests == cameraPending

geolocationRequests == geoPending

geocodingRequests == Len(fetchPending) + Len(jsonPending)

\* a step of the program that issues a position request, or a geocoding
\* request
geolocationRequested == geoPending' > geoPending

geocodingRequested == Len(fetchPending') > Len(fetchPending)

\* C15: the camera, position and reverse-geocoding requests are strictly
\* sequential: at most one of them is pending in any reachable state, the
\* position is requested only by the step in which the camera request
\* succeeds, and geocoding only by the step in which a position fix
\* arrives.
C15_RequestsSequential ==
  /\ [](cameraRequests + geolocationRequests + geocodingRequests <= 1)
  /\ [][ /\ geolocationRequested =>
              /\ cameraPending' < cameraPending
              /\ streamRef' # Null
         /\ geocodingRequested =>
              /\ geoPending' < geoPending
              /\ lastFix' # Null ]_vars

\* C15 witness: the geocoding request is pending, after the camera request
\* and the position request have both succeeded and ended.
C15_Witness ==
  /\ step = "capture"
  /\ Len(fetchPending) = 1
  /\ lastFix # Null
  /\ streamRef # Null
  /\ cameraPending = 0
  /\ geoPending = 0

\* a field of the report is overwritten: it held a value and holds another
\* one after the step
overwritten(old, new) == old # Null /\ new # Null /\ new # old

\* C16: issueType, location and capturedImage are written at most once
\* between two resets: none of them changes from one value to another
\* value; only handleReset, which makes them null, ends a session.
C16_FieldsWrittenOnce ==
  [][ /\ ~overwritten(issueType, issueType')
      /\ ~overwritten(location, location')
      /\ ~overwritten(capturedImage, capturedImage') ]_vars

\* C17: step 'generating' is never held with no render pending: the timer
\* of the effect is running or toPng has been called and has not returned,
\* so that the step is left for 'result' or 'initial' when it returns.
C17_GeneratingHasPendingRender ==
  step = "generating" => (renderTimer > 0 \/ toPngPending # <<>>)

\* the step taken by handleCapture with a video element: the only one
\* from 'capture' to 'generating'
captureStep == step = "capture" /\ step' = "generating"

\* C18: handleCapture with a live video element stores the frame, stops
\* the stream and moves to 'generating': after it capturedImage is not null
\* and streamRef is null.
C18_CaptureStoresFrame ==
  [][ captureStep => (capturedImage' # Null /\ streamRef' = Null) ]_vars

\* generateCertificate runs and the template or the library is missing;
\* a toPng call returns
collaboratorUnavailable ==
  renderTimer' < renderTimer /\ (~certificateRefCurrent \/ ~htmlToImage)

toPngReturned == Len(toPngPending') < Len(toPngPending)

\* C19: when the certificate template is not mounted or the rasterization
\* library is not loaded, generateCertificate sets the matching rendering
\* error and step 'initial' and leaves generatedCertificate null; when the
\* toPng call returns without a certificate being stored (it failed), the
\* rendering error is set and the step is 'initial', never 'result'.
C19_RenderFailureReturnsToInitial ==
  [][ /\ collaboratorUnavailable =>
            /\ step' = "initial"
            /\ generatedCertificate' = Null
            /\ error' = (IF ~certificateRefCurrent THEN MsgNoTemplate
                                                   ELSE MsgNoLibrary)
      /\ (toPngReturned /\ generatedCertificate' = Null) =>
            /\ step' = "initial"
            /\ error' = MsgRenderFailed
      /\ (step = "generating" /\ step' = "initial") =>
            /\ error' \in {MsgNoTemplate, MsgNoLibrary, MsgRenderFailed}
            /\ generatedCertificate' = Null ]_vars

\* C19 witness: generateCertificate ran before the library was loaded: the
\* report is complete, the error is shown, no certificate is stored.
C19_Witness ==
  /\ step = "initial"
  /\ error = MsgNoLibrary
  /\ ~htmlToImage
  /\ capturedImage # Null
  /\ location # Null
  /\ generatedCertificate = Null

\* the edges of the claim, and the edge taken when getUserMedia throws in
\* the click handler
ClaimedEdges ==
  { <<"initial", "selectIssue">>, <<"selectIssue", "capture">>,
    <<"capture", "generating">>, <<"generating", "result">>,
    <<"capture", "initial">>, <<"generating", "initial">>,
    <<"result", "initial">> }

StepEdges == ClaimedEdges \cup { <<"selectIssue", "initial">> }

\* C20 as stated: step changes only along initial->selectIssue,
\* selectIssue->capture, capture->generating, generating->result, and
\* from capture, generating or result back to initial.
C20_StepFollowsClaimedEdges ==
  [][ step' # step => <<step, step'>> \in ClaimedEdges ]_vars

\* C20: step changes only along initial->selectIssue, selectIssue->capture,
\* capture->generating, generating->result, and from selectIssue (the
\* camera request throws in the click handler), capture, generating or
\* result back to initial.
C20_StepFollowsEdges ==
  [][ step' # step => <<step, step'>> \in StepEdges ]_vars

\* C20 witness: back in 'initial' from 'selectIssue': an issue was chosen,
\* the camera error is shown, and no request was ever made.
C20_Witness ==
  /\ prevStep = "selectIssue"
  /\ step = "initial"
  /\ issueType # Null
  /\ error = MsgCameraGeneric
  /\ loadingMessage = LoadRequestingCamera
  /\ lastGeoError = Null
  /\ location = Null
  /\ tracksLive = 0

\* the messages of the failure paths
FailureMessages ==
  { MsgCameraGeneric, MsgCameraDenied, MsgGeoGeneric, MsgGeoDenied,
    MsgGeoUnavailable, MsgGeoTimeout, MsgNoTemplate, MsgNoLibrary,
    MsgRenderFailed }

\* a failure path returns to 'initial': every step to 'initial' that is
\* not the one of handleReset, which starts in 'result'
failureStep ==
  step \in {"selectIssue", "capture", "generating"} /\ step' = "initial"

\* C21: every failure transition to 'initial' leaves a non-empty error
\* message, the one of that failure, in place of any earlier one; an error
\* is shown only in step 'initial' or 'selectIssue'; startCaptureSequence
\* and handleReset clear it.
C21_ErrorPolicy ==
  /\ [](error # "" => step \in {"initial", "selectIssue"})
  /\ [][ /\ failureStep => (error' # "" /\ error' \in FailureMessages)
         /\ (failureStep /\ cameraPending' < cameraPending) =>
               error' \in {MsgCameraGeneric, MsgCameraDenied}
         /\ (failureStep /\ geoPending' < geoPending) =>
               error' \in {MsgGeoGeneric, MsgGeoDenied, MsgGeoUnavailable,
                           MsgGeoTimeout}
         /\ (failureStep /\ step = "generating") =>
               error' \in {MsgNoTemplate, MsgNoLibrary, MsgRenderFailed}
         /\ (step = "selectIssue" /\ step' = "capture") => error' = ""
         /\ (step = "result" /\ step' = "initial") => error' = "" ]_vars

\* C21 witness: after a geolocation failure and a second attempt whose
\* camera request was denied, the camera message alone is shown.
C21_Witness ==
  /\ step = "initial"
  /\ prevStep = "capture"
  /\ lastGeoError # Null
  /\ error = MsgCameraDenied

\* C22: whenever location is non-null its address is a non-empty string;
\* when the display name of the geocoding response is absent or empty the
\* address is "Address not found", otherwise it is the display name.
C22_AddressNeverEmpty ==
  /\ location # Null => Val(location).address # ""
  /\ (location # Null /\ lastData # Null) =>
       Val(location).address =
         (IF Val(lastData).display_name \in {Null, Some("")}
          THEN "Address not found"
          ELSE Val(Val(lastData).display_name))

\* C22 witness: the response had an empty display name and the location
\* was stored with the literal address.
C22_Witness ==
  /\ location # Null
  /\ lastData # Null
  /\ Val(lastData).display_name = Some("")
  /\ Val(location).address = "Address not found"

\* key i attains the maximal Jaccard score with the argument's words
maximal(i) ==
  \A j \in 1..Len(Keys) : common(i) * united(j) >= common(j) * united(i)

\* C23: the key selected by the loop of getCMImageUrl2 is the first key in
\* catalog order that attains the maximal score (no key when every score
\* is 0): among keys of equal maximal score the earliest wins, and the
\* image returned is the one of that key.
C23_FirstMaximalKeyWins ==
  (mPhase = "return" /\ ~(mState = Null \/ mState = Str(<<>>))
     /\ inputWords # {}) =>
    LET k == selectedKey(mState)
    IN  /\ (\A i \in 1..Len(Keys) : common(i) = 0) => k = 0
        /\ (\E i \in 1..Len(Keys) : common(i) > 0) =>
              /\ k \in 1..Len(Keys)
              /\ maximal(k)
              /\ \A j \in 1..Len(Keys) : maximal(j) => k <= j
        /\ mResult.second # Null =>
              (k # 0 /\ mResult.second = Some(CM_DATA[k].img))

\* C23 witness: "Pradesh" has the same maximal score 1/2 with five keys and
\* the first of them, "Andhra Pradesh", is selected and its image returned.
C23_Witness ==
  /\ mPhase = "return"
  /\ mState = Str(<<"P","r","a","d","e","s","h">>)
  /\ Cardinality({i \in 1..Len(Keys) : maximal(i)}) = 5
  /\ selectedKey(mState) = 1
  /\ mResult.second = Some(CM_DATA[1].img)

\* the entries of the three tiers for the argument: the entry equal to it
\* after normalization, the first entry of the substring pass, and the
\* first entry of maximal, non-zero token overlap; 0 stands for no entry
exactEntry ==
  IF \E i \in 1..Len(Keys) : Normalize(Keys[i]) = inputNormalized
  THEN CHOOSE i \in 1..Len(Keys) :
         /\ Normalize(Keys[i]) = inputNormalized
         /\ \A j \in 1..(i - 1) : Normalize(Keys[j]) # inputNormalized
  ELSE 0

substringEntry ==
  IF substringEntries = {} THEN 0
  ELSE CHOOSE k \in substringEntries : \A j \in substringEntries : k <= j

overlapEntry ==
  IF \A i \in 1..Len(Keys) : common(i) = 0 THEN 0
  ELSE CHOOSE k \in 1..Len(Keys) :
         /\ maximal(k)
         /\ \A j \in 1..(k - 1) : ~maximal(j)

\* an entry has usable imagery
usable(k) == k # 0 /\ CM_DATA[k].img # ""

\* the single three-tier algorithm on the argument: exact pass, then
\* substring pass, then token overlap with threshold 2/5
threeTier ==
  IF mState = Null \/ mState = Str(<<>>) THEN Null
  ELSE IF usable(exactEntry) THEN Some(CM_DATA[exactEntry].img)
  ELSE IF usable(substringEntry) THEN Some(CM_DATA[substringEntry].img)
  ELSE IF /\ usable(overlapEntry)
          /\ 5 * common(overlapEntry) >= 2 * united(overlapEntry)
       THEN Some(CM_DATA[overlapEntry].img)
  ELSE Null

\* C24: getCMImageUrl(state) || getCMImageUrl2(state) equals the result of
\* the single three-tier algorithm (exact pass, substring pass, token
\* overlap with threshold 0.4) for every argument: the same imagery, or no
\* match from both.
C24_CombinationIsThreeTier ==
  mPhase = "return" => mResult.imgUrl = threeTier

\* C24 witness: "kashmir jammu" passes the first two tiers without a match
\* and both sides return the image of the entry found by token overlap.
C24_Witness ==
  /\ mPhase = "return"
  /\ mState = Str(<<"k","a","s","h","m","i","r"," ","j","a","m","m","u">>)
  /\ exactEntry = 0
  /\ substringEntry = 0
  /\ usable(overlapEntry)
  /\ mResult.first = Null
  /\ mResult.imgUrl = Some(CM_DATA[overlapEntry].img)

\* the argument is a string with no character other than whitespace
blankInput ==
  mState # Null /\ \A i \in 1..Len(Val(mState)) : Val(mState)[i] \in WhiteSpace

\* C25: an argument that is blank after normalization (only whitespace)
\* yields no match, as the empty string does: neither getCMImageUrl nor the
\* combination selects an entry for it.
C25_BlankInputNoMatch ==
  (mPhase = "return" /\ blankInput) =>
    (mResult.first = Null /\ mResult.imgUrl = Null)

\* a result of the matcher is null or a non-empty imagery of the catalog
imageryOrNull(r) ==
  r = Null \/ (Val(r) # "" /\ \E i \in 1..Len(CM_DATA) : CM_DATA[i].img = Val(r))

\* the keys of the catalog normalized, and their word sets, tabulated once
normalizedKeys == [i \in 1..Len(Keys) |-> Normalize(Keys[i])]

keyWordSets == [i \in 1..Len(Keys) |-> normalizeAndTokenize(Keys[i])]

\* the entries a region name matches in some tier: equal after
\* normalization, one containing the other, or token overlap of at least
\* 2/5
matchedEntries(state) ==
  LET ns    == Normalize(Val(state))
      words == normalizeAndTokenize(Val(state))
  IN  {i \in 1..Len(Keys) :
         \/ normalizedKeys[i] = ns
         \/ includes(normalizedKeys[i], ns)
         \/ includes(ns, normalizedKeys[i])
         \/ /\ words \cap keyWordSets[i] # {}
            /\ 5 * Cardinality(words \cap keyWordSets[i])
                 >= 2 * Cardinality(words \cup keyWordSets[i])}

\* the region name matches entries, and only ones whose imagery is empty
matchesOnlyEmptyImagery(state) ==
  /\ ~(state = Null \/ state = Str(<<>>))
  /\ matchedEntries(state) # {}
  /\ \A i \in matchedEntries(state) : CM_DATA[i].img = ""

\* matchesOnlyEmptyImagery over the states a response can carry
onlyEmptyImageryGeoState ==
  [s \in GeoStates |-> matchesOnlyEmptyImagery(s)]

\* the matcher on every region name of RegionInputs: each of its results
\* is null or a non-empty imagery of the catalog, and null for a name that
\* matches only entries of empty imagery
matcherResultsUsable ==
  \A s \in RegionInputs :
    /\ imageryOrNull(getCMImageUrl(s))
    /\ imageryOrNull(getCMImageUrl2(s))
    /\ imageryOrNull(imgUrlOf(s))
    /\ matchesOnlyEmptyImagery(s) => imgUrlOf(s) = Null

\* C26: the matcher's result, and cmImageUrl in every reachable state, is
\* null or a non-empty imagery URL of the catalog, never the empty string;
\* a region name that matches only the entry of empty imagery gives null,
\* not the imagery of another region.
C26_ImageryNullOrUsable ==
  /\ matcherResultsUsable
  /\ imageryOrNull(cmImageUrl)
  /\ (lastData # Null /\ onlyEmptyImageryGeoState[Val(lastData).state]) =>
       cmImageUrl = Null

\* C26 witness: the geocoding response named "Manipur", the entry of empty
\* imagery; the location is stored and cmImageUrl is null.
C26_Witness ==
  /\ lastData # Null
  /\ Val(lastData).state = Str(<<"M","a","n","i","p","u","r">>)
  /\ onlyEmptyImageryGeoState[Val(lastData).state]
  /\ location # Null
  /\ cmImageUrl = Null

\* the shares in progress: handleShare ran and setIsSharing(false) has not
sharesInProgress == shareTimer + shareResetTimer

\* a step in which a download, or a share, starts
downloadStarts == downloaded' /\ ~downloaded

shareStarts == shareTimer' > shareTimer

\* C27: download and share act only on a finished certificate: a download
\* starts only with generatedCertificate stored, a share only with
\* location, generatedCertificate and issueType stored and no share in
\* progress; at most one share is in progress at a time, and isSharing
\* always returns to false after a share has started.
C27_ShareAndDownloadOnResult ==
  /\ [](downloaded => generatedCertificate # Null)
  /\ [](sharesInProgress <= 1 /\ (isSharing <=> sharesInProgress = 1))
  /\ [][ /\ downloadStarts => (step = "result" /\ generatedCertificate # Null)
         /\ shareStarts =>
              /\ ~isSharing
              /\ isSharing'
              /\ step = "result"
              /\ location # Null
              /\ generatedCertificate # Null
              /\ issueType # Null
              /\ downloaded' ]_vars
  /\ (isSharing ~> ~isSharing)

\* C27 witness: a share of a finished certificate is in progress: the
\* download was started, the tweet window was opened, and the timer that
\* ends the share is running.
C27_Witness ==
  /\ step = "result"
  /\ generatedCertificate # Null
  /\ isSharing
  /\ downloaded
  /\ shareTimer = 0
  /\ shareResetTimer = 1
====
